---------------------------- MODULE Spec2Model ----------------------------
(***************************************************************************)
(* State-machine model of src-tauri/src/main.rs: the engine state guarded  *)
(* by two mutexes (AppState), the load commands, cmd_transcribe with its   *)
(* two backends, and the pure helpers they call (read_wav_from_bytes, the  *)
(* hallucination filter, extract_text_from_json).                          *)
(***************************************************************************)
EXTENDS Integers, Sequences, FiniteSets, TLC

VARIABLES
    build,        \* "debug" | "release": cfg(debug_assertions), overflow checks
    engine,       \* AppState.engine: the TranscriptionEngine behind the mutex
    label,        \* AppState.current_model_name behind its mutex
    engineOwner,  \* holder of the engine mutex, or NoProc
    poisoned,     \* the engine mutex is poisoned (a holder panicked)
    nameOwner,    \* holder of the current_model_name mutex, or NoProc
    pc,           \* per task: position inside its command
    call,         \* per task: the command and its arguments
    audio,        \* per task: audio_input of cmd_transcribe
    used,         \* per task: the engine value matched under the guard
    fed,          \* per task: the backend invoked and the sample buffer it is handed
    side,         \* per task: sidecar invocation (binary, args, scratch file)
    got,          \* per task: what the backend returned in its last command
    result,       \* per task: what the last command returned
    files,        \* scratch WAV files present in the cache directory
    ncalls,       \* number of commands issued so far
    loads         \* number of load commands that have succeeded so far

vars == <<build, engine, label, engineOwner, poisoned, nameOwner, pc, call,
          audio, used, fed, side, got, result, files, ncalls, loads>>

(***************************************************************************)
(* Bounds                                                                  *)
(***************************************************************************)
MaxCalls   == 3   \* commands issued in one run
MaxSamples == 3   \* decoded samples in one WAV input
MaxSegs    == 3   \* segments one embedded decode returns
MaxErrLen  == 2   \* characters of sidecar standard error
MaxOutLen  == 3   \* characters of sidecar standard output

Procs  == {"t1", "t2"}
NoProc == "none"

(***************************************************************************)
(* f32 values.  A finite value is the dyadic rational num / 2^exp; the     *)
(* inputs are small enough that f32 addition and halving are exact.        *)
(***************************************************************************)
Fin(n, e) == [cls |-> "fin", num |-> n, exp |-> e]
NaN       == [cls |-> "nan", num |-> 0, exp |-> 0]
PInf      == [cls |-> "pinf", num |-> 0, exp |-> 0]
NInf      == [cls |-> "ninf", num |-> 0, exp |-> 0]
Zero      == Fin(0, 0)

is_finite(x) == x.cls = "fin"

Max2(a, b) == IF a >= b THEN a ELSE b

\* f32 addition (chunk[0] + chunk[1])
FAdd(a, b) ==
    IF a.cls = "nan" \/ b.cls = "nan" THEN NaN
    ELSE IF a.cls = "pinf" THEN (IF b.cls = "ninf" THEN NaN ELSE PInf)
    ELSE IF a.cls = "ninf" THEN (IF b.cls = "pinf" THEN NaN ELSE NInf)
    ELSE IF b.cls # "fin" THEN b
    ELSE LET e == Max2(a.exp, b.exp)
         IN  Fin(a.num * 2^(e - a.exp) + b.num * 2^(e - b.exp), e)

\* f32 division by 2.0
FHalf(a) == IF a.cls = "fin" THEN Fin(a.num, a.exp + 1) ELSE a

RECURSIVE Log2Mag(_)
\* k for m = 2^k or m = -(2^k)
Log2Mag(m) == IF m = 1 \/ m = -1 THEN 0 ELSE 1 + Log2Mag(m \div 2)

\* 2_i32.pow(e): 2^31 does not fit an i32; a debug build panics on the
\* overflow, a release build wraps to i32::MIN.
I32Pow2(e, b) ==
    IF e <= 30 THEN [panic |-> FALSE, v |-> 2^e]
    ELSE IF b = "debug" THEN [panic |-> TRUE, v |-> 0]
    ELSE [panic |-> FALSE, v |-> (-(2^30)) - 2^30]

\* s as f32 / max_val, max_val a power of two or its negation
DivMaxVal(s, max_val) ==
    IF max_val > 0 THEN Fin(s, Log2Mag(max_val)) ELSE Fin(-s, Log2Mag(max_val))

(***************************************************************************)
(* WAV inputs as the reader presents them: whether the container parses,   *)
(* its WavSpec, and the decoded samples (ok = FALSE: that sample failed to *)
(* decode).                                                                *)
(***************************************************************************)
RawI(n)  == [ok |-> TRUE, i |-> n, f |-> Zero]
RawF(x)  == [ok |-> TRUE, i |-> 0, f |-> x]
RawErr   == [ok |-> FALSE, i |-> 0, f |-> Zero]

Wav(v, rate, fmt, bits, ch, ss) ==
    [valid |-> v, sample_rate |-> rate, sample_format |-> fmt,
     bits_per_sample |-> bits, channels |-> ch, samples |-> ss]

SeqMap(F(_), s) == [k \in 1..Len(s) |-> F(s[k])]

\* samples.chunks(2).map(|chunk| (chunk[0] + chunk[1]) / 2.0): the last chunk
\* of an odd-length buffer has one element and chunk[1] is out of bounds.
MixStereo(samples) ==
    IF Len(samples) % 2 = 1
    THEN [kind |-> "panic", buf |-> <<>>]
    ELSE [kind |-> "ok",
          buf |-> [k \in 1..(Len(samples) \div 2) |->
                     FHalf(FAdd(samples[2 * k - 1], samples[2 * k]))]]

ConvertInt(w, b) ==
    LET p == I32Pow2(w.bits_per_sample - 1, b)
        data == SeqMap(LAMBDA r : IF r.ok THEN r.i ELSE 0, w.samples)
    IN  IF p.panic THEN [kind |-> "panic", buf |-> <<>>]
        ELSE [kind |-> "ok", buf |-> SeqMap(LAMBDA s : DivMaxVal(s, p.v), data)]

ConvertFloat(w) ==
    [kind |-> "ok", buf |-> SeqMap(LAMBDA r : IF r.ok THEN r.f ELSE Zero, w.samples)]

read_wav_from_bytes(w, b) ==
    IF ~w.valid THEN [kind |-> "err", msg |-> "WavReader error", buf |-> <<>>]
    ELSE IF w.sample_rate # 16000
    THEN [kind |-> "err", msg |-> "WAV file must be 16kHz", buf |-> <<>>]
    ELSE LET conv == IF w.sample_format = "Int" THEN ConvertInt(w, b)
                     ELSE ConvertFloat(w)
         IN  IF conv.kind = "panic" THEN [kind |-> "panic", msg |-> "", buf |-> <<>>]
             ELSE IF w.channels = 2
             THEN LET m == MixStereo(conv.buf)
                  IN  [kind |-> m.kind, msg |-> "", buf |-> m.buf]
             ELSE IF w.channels = 1
             THEN [kind |-> "ok", msg |-> "", buf |-> conv.buf]
             ELSE [kind |-> "err", msg |-> "Unsupported channel count", buf |-> <<>>]

(***************************************************************************)
(* Text.  A string is a sequence of characters [t, v, s]: t = "ch" an      *)
(* ordinary character, "ws" a blank, "nl" a line feed, "json" a whole JSON *)
(* document standing on a line (v = "str": an object whose "text" member   *)
(* is the string s; "nonstr": "text" is not a string; "notext": no "text"  *)
(* member), "lit" the value of such a string.                              *)
(***************************************************************************)
Ch(c)      == [t |-> "ch", v |-> "", s |-> c]
Ws         == [t |-> "ws", v |-> "", s |-> " "]
Nl         == [t |-> "nl", v |-> "", s |-> ""]
Json(k, x) == [t |-> "json", v |-> k, s |-> x]
Lit(x)     == [t |-> "lit", v |-> "", s |-> x]
Str(cs)    == [k \in 1..Len(cs) |-> IF cs[k] = " " THEN Ws ELSE Ch(cs[k])]

is_whitespace(a) == a.t \in {"ws", "nl"}

RECURSIVE trim_start(_)
trim_start(s) ==
    IF s # <<>> /\ is_whitespace(s[1]) THEN trim_start(Tail(s)) ELSE s

RECURSIVE trim_end(_)
trim_end(s) ==
    IF s # <<>> /\ is_whitespace(s[Len(s)])
    THEN trim_end(SubSeq(s, 1, Len(s) - 1)) ELSE s

\* str::trim
trim(s) == trim_end(trim_start(s))

RECURSIVE replace(_, _)
\* str::replace(pat, ""): the non-overlapping matches of pat, found left to
\* right in one pass, are removed
replace(s, pat) ==
    IF Len(s) < Len(pat) THEN s
    ELSE IF SubSeq(s, 1, Len(pat)) = pat
    THEN replace(SubSeq(s, Len(pat) + 1, Len(s)), pat)
    ELSE <<s[1]>> \o replace(Tail(s), pat)

filters ==
    << Str(<<"[", "B", "L", "A", "N", "K", "_", "A", "U", "D", "I", "O", "]">>),
       Str(<<"[", "s", "i", "l", "e", "n", "c", "e", "]">>),
       Str(<<"(", "m", "u", "s", "i", "c", ")">>),
       Str(<<"[", "M", "U", "S", "I", "C", "]">>),
       Str(<<"(", "s", "i", "l", "e", "n", "c", "e", ")">>) >>

RECURSIVE ApplyFilters(_, _)
\* for filter in filters.iter() { final_text = final_text.replace(filter, "") }
ApplyFilters(text, k) ==
    IF k > Len(filters) THEN text
    ELSE ApplyFilters(replace(text, filters[k]), k + 1)

\* text.trim(), the filter loop, final_text.trim()
FilterText(text) == trim(ApplyFilters(trim(text), 1))

RECURSIVE Concat(_)
\* text.push_str(&segment) over the segments; a segment whose text cannot be
\* retrieved counts as the empty string (unwrap_or(String::new()))
Concat(segs) ==
    IF segs = <<>> THEN <<>>
    ELSE (IF segs[1].ok THEN segs[1].text ELSE <<>>) \o Concat(Tail(segs))

(***************************************************************************)
(* Sidecar output                                                          *)
(***************************************************************************)
RECURSIVE lines(_)
\* str::lines: split at line feeds; a final empty line is not produced
lines(s) ==
    IF s = <<>> THEN <<>>
    ELSE IF \E i \in 1..Len(s) : s[i].t = "nl"
    THEN LET i == CHOOSE i \in 1..Len(s) :
                     s[i].t = "nl" /\ \A j \in 1..(i - 1) : s[j].t # "nl"
         IN  <<SubSeq(s, 1, i - 1)>> \o lines(SubSeq(s, i + 1, Len(s)))
    ELSE <<s>>

\* serde_json::from_str::<Value>(line): one JSON document, blanks around it
\* allowed, nothing else on the line
from_str(line) ==
    LET body == trim(line)
    IN  IF Len(body) = 1 /\ body[1].t = "json"
        THEN [ok |-> TRUE, v |-> body[1]]
        ELSE [ok |-> FALSE, v |-> Nl]

\* v.get("text").and_then(|t| t.as_str())
get_text_str(v) == IF v.v = "str" THEN <<v.s>> ELSE <<>>

RECURSIVE ExtractLines(_)
ExtractLines(ls) ==
    IF ls = <<>> THEN <<>>
    ELSE LET r == from_str(ls[1])
         IN  IF r.ok /\ get_text_str(r.v) # <<>>
             THEN get_text_str(r.v)
             ELSE ExtractLines(Tail(ls))

\* Option<String>: <<>> is None, <<x>> is Some(x)
extract_text_from_json(output) == ExtractLines(lines(output))

SidecarText_StdoutFirst(stderr, stdout) ==
    IF extract_text_from_json(stdout) # <<>>
    THEN <<Lit(extract_text_from_json(stdout)[1])>>
    ELSE IF extract_text_from_json(stderr) # <<>>
    THEN <<Lit(extract_text_from_json(stderr)[1])>>
    ELSE trim(stdout)

\* the transcript a successful sidecar run yields
SidecarText(stderr, stdout) ==
    IF extract_text_from_json(stderr) # <<>>
    THEN <<Lit(extract_text_from_json(stderr)[1])>>
    ELSE IF extract_text_from_json(stdout) # <<>>
    THEN <<Lit(extract_text_from_json(stdout)[1])>>
    ELSE trim(stdout)

(***************************************************************************)
(* Engine values and the model directory resolver of cmd_load_model.       *)
(* Option<T>: <<>> is None, <<x>> is Some(x).  A path inside a model       *)
(* directory is the pair <<directory, file name>>.                         *)
(***************************************************************************)
NoEngine ==
    [tag |-> "None", model_type |-> "", encoder |-> <<>>, decoder |-> <<>>,
     joiner |-> <<>>, sense_voice_model |-> <<>>, tokens |-> <<>>,
     model_name |-> "", ctx |-> ""]

\* TranscriptionEngine::Whisper(ctx), ctx loaded from the file `path`
WhisperEngine(path) == [NoEngine EXCEPT !.tag = "Whisper", !.ctx = path]

\* TranscriptionEngine::Sherpa(SherpaConfig { .. })
SherpaEngine(mt, enc, dec, join, sv, tok, name) ==
    [tag |-> "Sherpa", model_type |-> mt, encoder |-> enc, decoder |-> dec,
     joiner |-> join, sense_voice_model |-> sv, tokens |-> tok,
     model_name |-> name, ctx |-> ""]

FileNames ==
    {"tokens.txt", "model.int8.onnx", "encoder.int8.onnx", "encoder.onnx",
     "decoder.int8.onnx", "decoder.onnx", "joiner.int8.onnx", "joiner.onnx"}

\* the directory content in which exactly the files of S exist
Files(S) == [f \in FileNames |-> f \in S]

\* a model_path argument: a directory and which of the files exist in it, or
\* a model file that WhisperContext::new_with_params accepts (loadable) or
\* rejects
DirPath(n, fs)   == [is_dir |-> TRUE, name |-> n, files |-> fs, loadable |-> FALSE]
FilePath(n, ok)  == [is_dir |-> FALSE, name |-> n, files |-> Files({}), loadable |-> ok]
NoPath           == FilePath("", FALSE)

join(path, f)  == <<path.name, f>>
exists(path, f) == path.files[f]

PickVariant_PreferStd(path, int8, std) ==
    IF exists(path, std) THEN join(path, std) ELSE join(path, int8)

\* if path.join("x.int8.onnx").exists() { that } else { path.join("x.onnx") }
PickVariant(path, int8, std) ==
    IF exists(path, int8) THEN join(path, int8) ELSE join(path, std)

PickJoiner_StdOnly(path) ==
    IF exists(path, "joiner.onnx") THEN <<join(path, "joiner.onnx")>> ELSE <<>>

\* the joiner: Some(int8), else Some(std), else None
PickJoiner(path) ==
    IF exists(path, "joiner.int8.onnx") THEN <<join(path, "joiner.int8.onnx")>>
    ELSE IF exists(path, "joiner.onnx") THEN <<join(path, "joiner.onnx")>>
    ELSE <<>>

\* what a load leaves behind the two guards: on an early return Err the
\* engine e and the name n it found there, otherwise the new ones
LoadErr(m, e, n) == [kind |-> "err", msg |-> m, eng |-> e, name |-> n]
LoadOk(m, e, n)  == [kind |-> "ok", msg |-> m, eng |-> e, name |-> n]

\* the is_dir() branch of cmd_load_model
ResolveDir(path, e, n) ==
    IF ~exists(path, "tokens.txt") THEN LoadErr("Missing tokens.txt", e, n)
    ELSE IF exists(path, "model.int8.onnx")
    THEN LoadOk("SenseVoice Loaded",
                SherpaEngine("SenseVoice", <<>>, <<>>, <<>>,
                             <<join(path, "model.int8.onnx")>>,
                             join(path, "tokens.txt"), path.name),
                path.name)
    ELSE LET encoder == PickVariant(path, "encoder.int8.onnx", "encoder.onnx")
             decoder == PickVariant(path, "decoder.int8.onnx", "decoder.onnx")
             joiner  == PickJoiner(path)
         IN  IF ~exists(path, encoder[2]) \/ ~exists(path, decoder[2])
             THEN LoadErr("Missing model files", e, n)
             ELSE LoadOk("Sherpa Model Loaded",
                         SherpaEngine(IF joiner # <<>> THEN "Transducer" ELSE "Whisper",
                                      <<encoder>>, <<decoder>>, joiner, <<>>,
                                      join(path, "tokens.txt"), path.name),
                         path.name)

\* the else branch of cmd_load_model: a Whisper .bin file
ResolveFile_Reset(path, e, n) ==
    IF ~path.loadable THEN LoadErr("Failed to load Whisper model", NoEngine, "None")
    ELSE LoadOk("Whisper Model Loaded", WhisperEngine(path.name), path.name)

ResolveFile(path, e, n) ==
    IF ~path.loadable THEN LoadErr("Failed to load Whisper model", e, n)
    ELSE LoadOk("Whisper Model Loaded", WhisperEngine(path.name), path.name)

ResolveModel(path, e, n) ==
    IF path.is_dir THEN ResolveDir(path, e, n) ELSE ResolveFile(path, e, n)

\* Sanitize samples to remove NaNs or Infinities
Sanitize(buf) == SeqMap(LAMBDA s : IF is_finite(s) THEN s ELSE Zero, buf)

\* the kind-specific arguments of the sidecar command line
SidecarArgs(config, hotwords) ==
    [tokens |-> config.tokens,
     model  |-> IF config.model_type = "SenseVoice" THEN config.sense_voice_model
                ELSE <<>>,
     encoder |-> config.encoder, decoder |-> config.decoder,
     joiner  |-> IF config.model_type = "Transducer" THEN config.joiner ELSE <<>>,
     method  |-> IF config.model_type # "Transducer" THEN ""
                 ELSE IF hotwords THEN "modified_beam_search" ELSE "greedy_search"]

\* sidecar_path: the resource location, replaced by the development-tree
\* location only in a debug build, when the first is absent and the second exists
SidecarPath(resExists, devExists, b) ==
    IF ~resExists /\ b = "debug" /\ devExists THEN "dev" ELSE "resource"

(***************************************************************************)
(* State                                                                   *)
(***************************************************************************)
NoWav  == Wav(FALSE, 0, "", 0, 0, <<>>)
NoCall == [op |-> "none", wav |-> NoWav, path |-> NoPath, id |-> 0]
NoRes  == [kind |-> "none", msg |-> "", text |-> <<>>, data |-> <<>>]
NoUsed == [taken |-> FALSE, eng |-> NoEngine, loads |-> 0]
NoFed  == [to |-> "none", buf |-> <<>>]
NoSide == [bin |-> "", binExists |-> FALSE, args |-> SidecarArgs(NoEngine, FALSE),
           wav |-> 0, resExists |-> FALSE, devExists |-> FALSE, spawned |-> FALSE]

NoOut  == [code |-> -1, stderr |-> <<>>, stdout |-> <<>>]
NoGot  == [segs |-> <<>>, out |-> NoOut, failed |-> ""]

Ok(m)       == [kind |-> "ok", msg |-> m, text |-> <<>>, data |-> <<>>]
OkText(t)   == [kind |-> "ok", msg |-> "", text |-> t, data |-> <<>>]
Err(m)      == [kind |-> "err", msg |-> m, text |-> <<>>, data |-> <<>>]
ErrData(m, d) == [kind |-> "err", msg |-> m, text |-> <<>>, data |-> d]
Panicked    == [kind |-> "panic", msg |-> "", text |-> <<>>, data |-> <<>>]

LoadOps == {"cmd_load_model", "cmd_load_default_model"}

\* AppState::new(); the build is fixed before the program starts
Init ==
    /\ build \in {"debug", "release"}
    /\ engine = NoEngine
    /\ label = "None"
    /\ engineOwner = NoProc
    /\ poisoned = FALSE
    /\ nameOwner = NoProc
    /\ pc = [p \in Procs |-> "idle"]
    /\ call = [p \in Procs |-> NoCall]
    /\ audio = [p \in Procs |-> <<>>]
    /\ used = [p \in Procs |-> NoUsed]
    /\ fed = [p \in Procs |-> NoFed]
    /\ side = [p \in Procs |-> NoSide]
    /\ got = [p \in Procs |-> NoGot]
    /\ result = [p \in Procs |-> NoRes]
    /\ files = {}
    /\ ncalls = 0
    /\ loads = 0

shared == <<engine, label, engineOwner, poisoned, nameOwner, files, loads>>
locals == <<audio, used, fed, side, got>>

\* the frontend invokes a command on an idle task; at most `calls` commands
\* are issued in one run
Issue(p, c, calls) ==
    /\ pc[p] = "idle"
    /\ ncalls < calls
    /\ ncalls' = ncalls + 1
    /\ call' = [call EXCEPT ![p] = [c EXCEPT !.id = ncalls + 1]]
    /\ result' = [result EXCEPT ![p] = NoRes]
    /\ audio' = [audio EXCEPT ![p] = <<>>]
    /\ used' = [used EXCEPT ![p] = NoUsed]
    /\ fed' = [fed EXCEPT ![p] = NoFed]
    /\ side' = [side EXCEPT ![p] = NoSide]
    /\ got' = [got EXCEPT ![p] = NoGot]
    /\ UNCHANGED <<build, shared>>

\* the command returns r to the frontend (or its task dies, r = Panicked)
Return(p, r) ==
    /\ pc' = [pc EXCEPT ![p] = "idle"]
    /\ result' = [result EXCEPT ![p] = r]

Goto(p, l) ==
    /\ pc' = [pc EXCEPT ![p] = l]
    /\ UNCHANGED result

(***************************************************************************)
(* cmd_transcribe                                                          *)
(***************************************************************************)
StartTranscribe(p, wavs, calls) ==
    /\ \E w \in wavs :
         Issue(p, [NoCall EXCEPT !.op = "cmd_transcribe", !.wav = w], calls)
    /\ pc' = [pc EXCEPT ![p] = "t_read"]

\* cmd_transcribe returns r (or its task dies): audio_input and the sample
\* buffers are dropped
TReturn(p, r, to) ==
    /\ Return(p, r)
    /\ audio' = [audio EXCEPT ![p] = <<>>]
    /\ fed' = [fed EXCEPT ![p] = [to |-> to, buf |-> <<>>]]
    /\ UNCHANGED got

\* cmd_transcribe returns the error r of the embedded stage `stage` (`?`)
TFail(p, r, to, stage) ==
    /\ Return(p, r)
    /\ audio' = [audio EXCEPT ![p] = <<>>]
    /\ fed' = [fed EXCEPT ![p] = [to |-> to, buf |-> <<>>]]
    /\ got' = [got EXCEPT ![p].failed = stage]

\* let audio_input = read_wav_from_bytes(audio_data)?;  audio_data is moved
TRead(p) ==
    /\ pc[p] = "t_read"
    /\ LET r == read_wav_from_bytes(call[p].wav, build)
       IN  IF r.kind = "ok"
           THEN Goto(p, "t_lock") /\ audio' = [audio EXCEPT ![p] = r.buf]
           ELSE /\ Return(p, IF r.kind = "err" THEN Err(r.msg) ELSE Panicked)
                /\ UNCHANGED audio
    /\ call' = [call EXCEPT ![p].wav = NoWav]
    /\ UNCHANGED <<build, shared, used, fed, side, got, ncalls>>

TranscribeLock_Unguarded == TRUE

\* state.engine.lock() of cmd_transcribe can proceed
TranscribeLockFree == engineOwner = NoProc

\* let engine_guard = state.engine.lock().map_err(|_| "Failed to lock state")?;
TLock(p) ==
    /\ pc[p] = "t_lock"
    /\ TranscribeLockFree
    /\ IF poisoned
       THEN /\ TReturn(p, Err("Failed to lock state"), "none")
            /\ UNCHANGED <<engineOwner, used>>
       ELSE /\ Goto(p, "t_match")
            /\ engineOwner' = p
            /\ used' = [used EXCEPT ![p] =
                          [taken |-> TRUE, eng |-> engine, loads |-> loads]]
            /\ UNCHANGED <<audio, fed, got>>
    /\ UNCHANGED <<build, engine, label, poisoned, nameOwner, files, loads,
                   call, side, ncalls>>

NoModelLoaded_NotWhisper(e) == e.tag # "Whisper"

Borrowed_Taken(e) == NoEngine

\* match &*engine_guard: the arms work on a shared borrow of the engine, which
\* stays behind the guard as it is
Borrowed(e) == e

\* the arm TranscriptionEngine::None of the match
NoModelLoaded(e) == e.tag = "None"

\* TranscriptionEngine::None => Err("No model loaded")
TMatchNone(p) ==
    /\ pc[p] = "t_match"
    /\ NoModelLoaded(engine)
    /\ TReturn(p, Err("No model loaded"), "none")
    /\ engineOwner' = NoProc
    /\ engine' = Borrowed(engine)
    /\ UNCHANGED <<build, label, poisoned, nameOwner, files, loads,
                   call, used, side, ncalls>>

\* TranscriptionEngine::Whisper(ctx): ctx.create_state(), then state.full on
\* the buffer as it is, then full_n_segments and the segment loop
TMatchWhisper(p, segsets) ==
    /\ pc[p] = "t_match"
    /\ engine.tag = "Whisper"
    /\ \E o \in {"state_err", "full_err", "count_err", "ok"} :
         IF o = "ok"
         THEN \E segs \in segsets :
                /\ Goto(p, "t_filter")
                /\ fed' = [fed EXCEPT ![p] = [to |-> "embedded", buf |-> audio[p]]]
                /\ got' = [got EXCEPT ![p].segs = segs]
                /\ UNCHANGED <<engineOwner, audio>>
         ELSE /\ TFail(p, Err(CASE o = "state_err" -> "Failed to create Whisper state"
                                [] o = "full_err" -> "Whisper error"
                                [] OTHER -> "Error getting segments"),
                       IF o = "state_err" THEN "none" ELSE "embedded", o)
              /\ engineOwner' = NoProc
    /\ engine' = Borrowed(engine)
    /\ UNCHANGED <<build, label, poisoned, nameOwner, files, loads,
                   call, used, side, ncalls>>

\* text.trim(), the filter loop, Ok(final_text.trim().to_string())
TFilter(p) ==
    /\ pc[p] = "t_filter"
    /\ TReturn(p, OkText(FilterText(Concat(got[p].segs))), fed[p].to)
    /\ engineOwner' = NoProc
    /\ UNCHANGED <<build, engine, label, poisoned, nameOwner, files, loads,
                   call, used, side, ncalls>>

\* TranscriptionEngine::Sherpa(config): sanitize, write_temp_wav, resource_dir,
\* the sidecar path and the argument list.  wr: what write_temp_wav does
\* ("dir_err": no file made; "write_err": the file is made, then a write
\* fails; "ok"); rd: resource_dir() succeeds; hw: get_hotwords_file_path
\* panics (.expect) or the hotwords file is present or absent.
TMatchSherpa(p) ==
    /\ pc[p] = "t_match"
    /\ engine.tag = "Sherpa"
    /\ \E wr \in {"dir_err", "write_err", "ok"}, rd \in BOOLEAN,
          resExists \in BOOLEAN, devExists \in BOOLEAN,
          hw \in {"panic", "present", "absent"} :
         LET safe_samples == Sanitize(audio[p])
             made == IF wr = "dir_err" THEN {} ELSE {call[p].id}
             bin  == SidecarPath(resExists, devExists, build)
         IN  /\ files' = files \cup made
             /\ IF wr # "ok"
                THEN /\ TReturn(p, Err("Failed to write WAV"), "sidecar")
                     /\ engineOwner' = NoProc
                     /\ UNCHANGED <<poisoned, side>>
                ELSE IF ~rd
                THEN /\ TReturn(p, Err("Failed to get resource dir"), "sidecar")
                     /\ engineOwner' = NoProc
                     /\ side' = [side EXCEPT ![p].wav = call[p].id]
                     /\ UNCHANGED poisoned
                ELSE IF engine.model_type = "Transducer" /\ hw = "panic"
                THEN /\ TReturn(p, Panicked, "sidecar")
                     /\ engineOwner' = NoProc
                     /\ poisoned' = TRUE
                     /\ side' = [side EXCEPT ![p].wav = call[p].id]
                ELSE /\ Goto(p, "t_spawn")
                     /\ fed' = [fed EXCEPT ![p] =
                                  [to |-> "sidecar", buf |-> safe_samples]]
                     /\ side' = [side EXCEPT ![p] =
                          [bin |-> bin,
                           binExists |-> IF bin = "dev" THEN devExists ELSE resExists,
                           args |-> SidecarArgs(engine, hw = "present"),
                           wav |-> call[p].id,
                           resExists |-> resExists, devExists |-> devExists,
                           spawned |-> FALSE]]
                     /\ UNCHANGED <<engineOwner, poisoned, audio, got>>
    /\ engine' = Borrowed(engine)
    /\ UNCHANGED <<build, label, nameOwner, loads, call, used, ncalls>>

\* output.status.success()
success(o) == o.code = 0

\* Command::new(&sidecar_path).output(): the process runs to its exit and
\* both streams are captured; it cannot start when the binary is absent
TSpawn(p, outs) ==
    /\ pc[p] = "t_spawn"
    /\ \E started \in (IF side[p].binExists THEN BOOLEAN ELSE {FALSE}) :
         IF ~started
         THEN /\ TReturn(p, Err("Failed to execute Sherpa process"), fed[p].to)
              /\ engineOwner' = NoProc
         ELSE \E o \in outs :
                /\ got' = [got EXCEPT ![p].out = o]
                /\ Goto(p, "t_exit")
                /\ UNCHANGED <<engineOwner, audio, fed>>
    /\ side' = [side EXCEPT ![p].spawned = TRUE]
    /\ UNCHANGED <<build, engine, label, poisoned, nameOwner, files, loads,
                   call, used, ncalls>>

\* the scratch file clean-up and the result extraction; the result of
\* remove_file is discarded (let _ =), so a removal that fails goes unnoticed
TExit(p) ==
    /\ pc[p] = "t_exit"
    /\ LET o == got[p].out
       IN  IF success(o)
           THEN /\ \E removed \in BOOLEAN :
                     files' = IF removed THEN files \ {side[p].wav} ELSE files
                /\ TReturn(p, OkText(SidecarText(o.stderr, o.stdout)), fed[p].to)
           ELSE /\ UNCHANGED files
                /\ TReturn(p, ErrData("Sherpa exit code",
                                      <<o.code, o.stderr, o.stdout>>), fed[p].to)
    /\ engineOwner' = NoProc
    /\ UNCHANGED <<build, engine, label, poisoned, nameOwner, loads,
                   call, used, side, ncalls>>

(***************************************************************************)
(* cmd_load_model                                                          *)
(***************************************************************************)
StartLoadModel(p, paths, calls) ==
    /\ \E m \in paths :
         Issue(p, [NoCall EXCEPT !.op = "cmd_load_model", !.path = m], calls)
    /\ pc' = [pc EXCEPT ![p] = "l_lock"]

LoadLock_Unguarded == TRUE

\* state.engine.lock() of cmd_load_model can proceed
LoadLockFree == engineOwner = NoProc

\* let mut engine_guard = state.engine.lock().map_err(..)?;
LLock(p) ==
    /\ pc[p] = "l_lock"
    /\ LoadLockFree
    /\ IF poisoned
       THEN Return(p, Err("Failed to lock state")) /\ UNCHANGED engineOwner
       ELSE Goto(p, "l_name") /\ engineOwner' = p
    /\ UNCHANGED <<build, engine, label, poisoned, nameOwner, files, loads,
                   call, locals, ncalls>>

\* let mut name_guard = state.current_model_name.lock().map_err(..)?;
\* no holder of this mutex can panic, so it is never poisoned
LName(p) ==
    /\ pc[p] = "l_name"
    /\ nameOwner = NoProc
    /\ nameOwner' = p
    /\ Goto(p, "l_body")
    /\ UNCHANGED <<build, engine, label, engineOwner, poisoned, files, loads,
                   call, locals, ncalls>>

\* the body of cmd_load_model under both guards, up to an early return Err
\* (both guards are released) or the assignment *engine_guard = ..
LBody(p) ==
    /\ pc[p] = "l_body"
    /\ LET r == ResolveModel(call[p].path, engine, label)
       IN  /\ engine' = r.eng
           /\ IF r.kind = "ok"
              THEN /\ loads' = loads + 1
                   /\ Goto(p, "l_label")
                   /\ UNCHANGED <<label, nameOwner, engineOwner>>
              ELSE /\ label' = r.name
                   /\ Return(p, Err(r.msg))
                   /\ nameOwner' = NoProc
                   /\ engineOwner' = NoProc
                   /\ UNCHANGED loads
    /\ UNCHANGED <<build, poisoned, files, call, locals, ncalls>>

\* *name_guard = model_name, then Ok(..): both guards are released
LLabel(p) ==
    /\ pc[p] = "l_label"
    /\ LET r == ResolveModel(call[p].path, engine, label)
       IN  /\ label' = r.name
           /\ Return(p, Ok(r.msg))
    /\ nameOwner' = NoProc
    /\ engineOwner' = NoProc
    /\ UNCHANGED <<build, engine, poisoned, files, loads, call, locals, ncalls>>

(***************************************************************************)
(* cmd_load_default_model                                                  *)
(***************************************************************************)
DefaultModelPath == "d:/Personal/voiceapp/src-tauri/whisper.cpp/ggml-base.en.bin"
DefaultModelName == "Whisper Base (Local)"

StartLoadDefault(p, calls) ==
    /\ Issue(p, [NoCall EXCEPT !.op = "cmd_load_default_model"], calls)
    /\ pc' = [pc EXCEPT ![p] = "d_new"]

\* WhisperContext::new_with_params(model_path, ..), before any guard is taken
DNew(p) ==
    /\ pc[p] = "d_new"
    /\ \E loaded \in BOOLEAN :
         IF loaded THEN Goto(p, "d_lock")
         ELSE Return(p, Err("Failed to load default model"))
    /\ UNCHANGED <<build, shared, call, locals, ncalls>>

\* state.engine.lock() of cmd_load_default_model can proceed
DefaultLockFree == engineOwner = NoProc

\* the label guard taken where the engine guard is
DLock_NameFirst(p) ==
    /\ pc[p] = "d_lock"
    /\ nameOwner = NoProc
    /\ nameOwner' = p
    /\ Goto(p, "d_name")
    /\ UNCHANGED <<build, engine, label, engineOwner, poisoned, files, loads,
                   call, locals, ncalls>>

\* let mut engine_guard = state.engine.lock().map_err(..)?;
DLock(p) ==
    /\ pc[p] = "d_lock"
    /\ DefaultLockFree
    /\ IF poisoned
       THEN Return(p, Err("Failed to lock state")) /\ UNCHANGED engineOwner
       ELSE Goto(p, "d_name") /\ engineOwner' = p
    /\ UNCHANGED <<build, engine, label, poisoned, nameOwner, files, loads,
                   call, locals, ncalls>>

DName(p) ==
    /\ pc[p] = "d_name"
    /\ nameOwner = NoProc
    /\ nameOwner' = p
    /\ Goto(p, "d_body")
    /\ UNCHANGED <<build, engine, label, engineOwner, poisoned, files, loads,
                   call, locals, ncalls>>

\* *engine_guard = engine
DBody(p) ==
    /\ pc[p] = "d_body"
    /\ engine' = WhisperEngine(DefaultModelPath)
    /\ loads' = loads + 1
    /\ Goto(p, "d_label")
    /\ UNCHANGED <<build, label, engineOwner, poisoned, nameOwner, files,
                   call, locals, ncalls>>

\* *name_guard = "Whisper Base (Local)", then Ok(..): both guards are released
DLabel(p) ==
    /\ pc[p] = "d_label"
    /\ label' = DefaultModelName
    /\ Return(p, Ok(DefaultModelName))
    /\ nameOwner' = NoProc
    /\ engineOwner' = NoProc
    /\ UNCHANGED <<build, engine, poisoned, files, loads, call, locals, ncalls>>

(***************************************************************************)
(* get_current_model, set_model                                            *)
(***************************************************************************)
StartGet(p, calls) ==
    /\ Issue(p, [NoCall EXCEPT !.op = "get_current_model"], calls)
    /\ pc' = [pc EXCEPT ![p] = "g_lock"]

GetLock_Unguarded == TRUE

\* state.current_model_name.lock() of get_current_model can proceed
GetLockFree == nameOwner = NoProc

\* lock the name, clone it, release
GLock(p) ==
    /\ pc[p] = "g_lock"
    /\ GetLockFree
    /\ Return(p, Ok(label))
    /\ UNCHANGED <<build, shared, call, locals, ncalls>>

StartSet(p, calls) ==
    /\ Issue(p, [NoCall EXCEPT !.op = "set_model"], calls)
    /\ pc' = [pc EXCEPT ![p] = "s_ret"]

SetRet(p) ==
    /\ pc[p] = "s_ret"
    /\ Return(p, Ok(""))
    /\ UNCHANGED <<build, shared, call, locals, ncalls>>

(***************************************************************************)
(* Inputs.  A universe names the tasks that run and the sets the commands' *)
(* arguments and the backends' answers are drawn from.                     *)
(***************************************************************************)
SeqsUpTo(S, n) == UNION {[1..k -> S] : k \in 0..n}

Seg(cs) == [ok |-> TRUE, text |-> Str(cs)]
SegErr  == [ok |-> FALSE, text |-> <<>>]
Out(c, e, o) == [code |-> c, stderr |-> e, stdout |-> o]

MonoFloat(ss) == Wav(TRUE, 16000, "Float", 32, 1, ss)

SomeWavs ==
    { MonoFloat(<<RawF(Fin(1, 0))>>),
      Wav(TRUE, 44100, "Float", 32, 1, <<RawF(Fin(1, 0))>>) }

SomePaths ==
    { DirPath("sv", Files({"tokens.txt", "model.int8.onnx"})),
      DirPath("td", Files({"tokens.txt", "encoder.onnx", "decoder.onnx", "joiner.onnx"})),
      DirPath("empty", Files({})),
      FilePath("base.bin", TRUE),
      FilePath("bad.bin", FALSE) }

SomeSegs == { <<>>, <<Seg(<<"h", "i">>)>> }

SomeOuts ==
    { Out(0, <<Json("str", "A")>>, <<>>), Out(1, <<Ch("x")>>, <<>>) }

Universe(procs, calls, wavs, paths, segs, outs) ==
    [procs |-> procs, calls |-> calls, wavs |-> wavs, paths |-> paths,
     segs |-> segs, outs |-> outs]

NextOf(U) ==
    \E p \in U.procs :
        \/ StartTranscribe(p, U.wavs, U.calls)
        \/ TRead(p)
        \/ TLock(p)
        \/ TMatchNone(p)
        \/ TMatchWhisper(p, U.segs)
        \/ TFilter(p)
        \/ TMatchSherpa(p)
        \/ TSpawn(p, U.outs)
        \/ TExit(p)
        \/ StartLoadModel(p, U.paths, U.calls)
        \/ LLock(p)
        \/ LName(p)
        \/ LBody(p)
        \/ LLabel(p)
        \/ StartLoadDefault(p, U.calls)
        \/ DNew(p)
        \/ DLock(p)
        \/ DName(p)
        \/ DBody(p)
        \/ DLabel(p)
        \/ StartGet(p, U.calls)
        \/ GLock(p)
        \/ StartSet(p, U.calls)
        \/ SetRet(p)

\* concurrent commands on two tasks
MainUniverse == Universe(Procs, MaxCalls, SomeWavs, SomePaths, SomeSegs, SomeOuts)
Next == NextOf(MainUniverse)
Spec == Init /\ [][Next]_vars

\* a guard acquisition by task p
Acquire(p) ==
    TLock(p) \/ LLock(p) \/ LName(p) \/ DLock(p) \/ DName(p) \/ GLock(p)

\* concurrent commands on two tasks with one audio input, one model
\* directory (the embedded engine comes from cmd_load_default_model) and one
\* answer of each backend
FairUniverse ==
    Universe(Procs, MaxCalls, {MonoFloat(<<RawF(Fin(1, 0))>>)},
             {DirPath("td", Files({"tokens.txt", "encoder.onnx", "decoder.onnx", "joiner.onnx"}))},
             {<<>>}, {Out(0, <<Json("str", "A")>>, <<>>)})
NextFair == NextOf(FairUniverse)

\* any other step of a command running on task p: a backend invocation comes
\* back, the command goes on to its next statement or returns
Work(p) ==
    \/ TRead(p) \/ TMatchNone(p) \/ TMatchWhisper(p, FairUniverse.segs)
    \/ TFilter(p) \/ TMatchSherpa(p) \/ TSpawn(p, FairUniverse.outs) \/ TExit(p)
    \/ LBody(p) \/ LLabel(p) \/ DNew(p) \/ DBody(p) \/ DLabel(p) \/ SetRet(p)

\* every task is scheduled: a backend invocation terminates, and a task that
\* waits for a guard takes it once the guard stays free (the frontend issues
\* finitely many calls, so weak fairness is all that fair acquisition adds)
SpecFair ==
    /\ Init /\ [][NextFair]_vars
    /\ \A p \in Procs : WF_vars(Work(p) \/ Acquire(p))

\* The specifications below run one task through two commands (a load, then
\* the command under study) and widen one input set each.

\* model loading on one task, over every content of a model directory
AllDirs == {DirPath("m", fs) : fs \in [FileNames -> BOOLEAN]}
ResolveUniverse ==
    Universe({"t1"}, 2, SomeWavs, AllDirs \cup {FilePath("base.bin", TRUE)},
             SomeSegs, SomeOuts)
NextResolve == NextOf(ResolveUniverse)
SpecResolve == Init /\ [][NextResolve]_vars

\* audio normalisation on one task, over WAV inputs of every format
IntRaw(bits) == {RawErr, RawI(1 - 2^(bits - 2)), RawI(2^(bits - 2) - 1)}
FloatRaw     == {RawErr, RawF(Fin(1, 0)), RawF(Fin(-3, 0)), RawF(NaN), RawF(PInf),
                 RawF(NInf)}
AllWavs ==
    {NoWav} \cup
    UNION {{Wav(TRUE, rate, "Int", bits, ch, ss) : ss \in SeqsUpTo(IntRaw(bits), MaxSamples)} :
             rate \in {16000, 44100}, bits \in {8, 16, 24, 32}, ch \in {1, 2, 3}} \cup
    UNION {{Wav(TRUE, rate, "Float", 32, ch, ss) : ss \in SeqsUpTo(FloatRaw, MaxSamples)} :
             rate \in {16000, 44100}, ch \in {1, 2, 3}}
AudioPaths == {DirPath("sv", Files({"tokens.txt", "model.int8.onnx"})), FilePath("base.bin", TRUE)}
AudioUniverse == Universe({"t1"}, 2, AllWavs, AudioPaths, {<<>>}, SomeOuts)
NextAudio == NextOf(AudioUniverse)
SpecAudio == Init /\ [][NextAudio]_vars

\* the embedded adapter on one task, over the segment texts a decode returns
SegPieces ==
    { SegErr, Seg(<<" ">>), Seg(<<"a">>),
      Seg(<<"[", "B", "L", "A", "N", "K", "_", "A", "U", "D", "I", "O", "]">>),
      Seg(<<"[", "s", "i", "l", "e", "n", "c", "e", "]">>),
      Seg(<<"(", "m", "u", "s", "i", "c", ")">>),
      Seg(<<"[", "M", "U", "S", "I", "C", "]">>),
      Seg(<<"(", "s", "i", "l", "e", "n", "c", "e", ")">>),
      Seg(<<"[", "s", "i", "l">>), Seg(<<"e", "n", "c", "e", "]">>),
      Seg(<<"[", "B", "L", "A", "N", "K", "_">>), Seg(<<"A", "U", "D", "I", "O", "]">>) }
AllSegs  == SeqsUpTo(SegPieces, MaxSegs)
TextUniverse == Universe({"t1"}, 2, SomeWavs, AudioPaths, AllSegs, SomeOuts)
NextText == NextOf(TextUniverse)
SpecText == Init /\ [][NextText]_vars

\* the sidecar adapter on one task, over the output of the process
ErrAtoms == {Nl, Ch("x"), Json("nonstr", ""), Json("str", "A"), Json("str", "B")}
OutAtoms == {Nl, Ws, Ch("x"), Json("notext", ""), Json("str", "A"), Json("str", "B")}
AllOuts ==
    {Out(0, e, o) : e \in SeqsUpTo(ErrAtoms, MaxErrLen),
                    o \in SeqsUpTo(OutAtoms, MaxOutLen)}
    \cup {Out(1, e, <<Json("str", "B")>>) : e \in {<<>>, <<Json("str", "A")>>}}
SidecarUniverse == Universe({"t1"}, 2, SomeWavs, AudioPaths, SomeSegs, AllOuts)
NextSidecar == NextOf(SidecarUniverse)
SpecSidecar == Init /\ [][NextSidecar]_vars

(***************************************************************************)
(* Properties                                                              *)
(***************************************************************************)
\* task p holds the engine guard inside cmd_transcribe
InGuard(p) == pc[p] \in {"t_match", "t_filter", "t_spawn", "t_exit"}

\* task p's command has ended
Ended(p) == pc[p] = "idle" /\ call[p].op # "none"

\* C1: the guarded sections of two cmd_transcribe calls never overlap: while
\* one call is between acquiring the engine guard and returning, no other
\* call is inside its own guarded section.
C1_GuardedSectionsDisjoint ==
    \A p, q \in Procs : InGuard(p) /\ InGuard(q) => p = q

\* one call decodes or waits for the sidecar while another waits for the guard
C1_Witness ==
    \E p, q \in Procs :
        p # q /\ pc[p] \in {"t_filter", "t_spawn", "t_exit"} /\ pc[q] = "t_lock"

\* C2: while a transcription is inside its guarded section no step changes
\* the engine or the label, so a load issued meanwhile takes effect only
\* after the section has ended, and the engine the transcription found when
\* it acquired the guard is the engine until it returns.
C2_LoadWaitsForTranscription ==
    /\ [](\A p \in Procs : InGuard(p) => used[p].eng = engine)
    /\ [][(\E p \in Procs : InGuard(p)) => (engine' = engine /\ label' = label)]_vars

\* a load was issued and waits while a transcription is in its guarded section
C2_Witness ==
    \E p, q \in Procs :
        p # q /\ pc[p] \in {"t_filter", "t_spawn", "t_exit"} /\ pc[q] \in {"l_lock", "d_lock"}

\* C3: a load call that returns an error has changed neither the engine nor
\* the label: the only steps of a load command that change either are the two
\* assignments, and a call that has made the first returns successfully.
C3_FailedLoadChangesNothing ==
    [][\A p \in Procs :
          /\ (/\ call'[p].op \in LoadOps
              /\ pc'[p] # pc[p]
              /\ pc'[p] \notin {"l_label", "d_label"}
              /\ ~(pc'[p] = "idle" /\ result'[p].kind = "ok"))
             => (engine' = engine /\ label' = label)
          /\ (pc[p] \in {"l_label", "d_label"} /\ pc'[p] # pc[p])
             => (pc'[p] = "idle" /\ result'[p].kind = "ok")]_vars

\* a load failed to acquire the guard (poisoned by a panicked transcription)
\* with an external engine loaded
C3_Witness ==
    \E p \in Procs :
        /\ Ended(p) /\ call[p].op \in LoadOps
        /\ result[p] = Err("Failed to lock state")
        /\ engine.tag = "Sherpa"

\* C4: a transcribe call that reaches its guarded section returns "No model
\* loaded" exactly when no load had succeeded by then, and in that case hands
\* no buffer to a backend and writes no scratch file; the engine is Unloaded
\* exactly as long as no load has succeeded.
C4_NoModelIffNeverLoaded ==
    /\ (engine.tag = "None") <=> (loads = 0)
    /\ \A p \in Procs :
         (Ended(p) /\ call[p].op = "cmd_transcribe" /\ used[p].taken) =>
            /\ (result[p] = Err("No model loaded")) <=> (used[p].loads = 0)
            /\ used[p].loads = 0 =>
                 (fed[p].to = "none" /\ side[p].wav = 0 /\ call[p].id \notin files)

\* a transcription returned "No model loaded"
C4_Witness ==
    \E p \in Procs :
        /\ Ended(p) /\ call[p].op = "cmd_transcribe"
        /\ result[p] = Err("No model loaded")
        /\ used[p].taken

\* C5: on a directory, load decides in this order: no tokens.txt, the
\* missing-tokens error; else model.int8.onnx present, SenseVoice; else no
\* encoder variant or no decoder variant, the missing-component error; else
\* Transducer when some joiner variant exists and Whisper when none does.
C5_DecisionSequence ==
    [][\A p \in Procs :
          (pc[p] = "l_body" /\ pc'[p] # "l_body" /\ call[p].path.is_dir) =>
             LET has(f) == exists(call[p].path, f)
                 enc == has("encoder.int8.onnx") \/ has("encoder.onnx")
                 dec == has("decoder.int8.onnx") \/ has("decoder.onnx")
                 jnr == has("joiner.int8.onnx") \/ has("joiner.onnx")
                 kind(k) == /\ pc'[p] = "l_label"
                            /\ engine'.tag = "Sherpa"
                            /\ engine'.model_type = k
             IN  /\ ~has("tokens.txt") => result'[p] = Err("Missing tokens.txt")
                 /\ has("tokens.txt") =>
                      /\ has("model.int8.onnx") => kind("SenseVoice")
                      /\ ~has("model.int8.onnx") =>
                           /\ (~enc \/ ~dec) => result'[p] = Err("Missing model files")
                           /\ (enc /\ dec /\ jnr) => kind("Transducer")
                           /\ (enc /\ dec /\ ~jnr) => kind("Whisper")]_vars

\* a directory holding every file was loaded as SenseVoice
C5_Witness ==
    \E p \in Procs :
        /\ Ended(p) /\ call[p].op = "cmd_load_model"
        /\ call[p].path.files = Files(FileNames)
        /\ result[p].kind = "ok" /\ engine.model_type = "SenseVoice"

\* C6: in a loaded Transducer or Whisper configuration the encoder, the
\* decoder and (Transducer) the joiner are each bound to the .int8.onnx file
\* when it exists and to the .onnx file otherwise, and every bound file
\* existed in the directory.
C6_Int8Preferred ==
    [][\A p \in Procs :
          (/\ pc[p] = "l_body" /\ pc'[p] = "l_label"
           /\ engine'.model_type \in {"Transducer", "Whisper"}) =>
             LET dir == call[p].path
                 bound(opt, int8, std) ==
                     /\ Len(opt) = 1
                     /\ opt[1][1] = dir.name
                     /\ opt[1][2] = (IF dir.files[int8] THEN int8 ELSE std)
                     /\ dir.files[opt[1][2]]
             IN  /\ bound(engine'.encoder, "encoder.int8.onnx", "encoder.onnx")
                 /\ bound(engine'.decoder, "decoder.int8.onnx", "decoder.onnx")
                 /\ IF engine'.model_type = "Transducer"
                    THEN bound(engine'.joiner, "joiner.int8.onnx", "joiner.onnx")
                    ELSE engine'.joiner = <<>>]_vars

\* both encoder variants and only the plain decoder exist: the encoder is
\* bound to the int8 file, the decoder to the plain one
C6_Witness ==
    \E p \in Procs :
        /\ Ended(p) /\ call[p].op = "cmd_load_model" /\ result[p].kind = "ok"
        /\ \A f \in {"encoder.int8.onnx", "encoder.onnx", "decoder.onnx"} :
              call[p].path.files[f]
        /\ ~call[p].path.files["decoder.int8.onnx"]
        /\ engine.model_type = "Transducer"
        /\ engine.encoder = <<join(call[p].path, "encoder.int8.onnx")>>
        /\ engine.decoder = <<join(call[p].path, "decoder.onnx")>>

\* C7: every sample of a buffer handed to a backend, the embedded decode or
\* the scratch-file writer, is finite.
C7_BackendSamplesFinite ==
    \A p \in Procs :
        fed[p].to # "none" => \A k \in 1..Len(fed[p].buf) : is_finite(fed[p].buf[k])

\* C8: read_wav_from_bytes on a 16 kHz input whose n samples convert returns
\* a buffer: of n samples for 1 channel; for 2 channels of n div 2 samples,
\* the k-th the average of samples 2k-1 and 2k (counted from 1), an odd
\* trailing sample dropped.
C8_StereoPairsAveraged ==
    [][\A p \in Procs :
          LET w == call[p].wav
              dec == IF w.sample_format = "Int" THEN ConvertInt(w, build).buf
                     ELSE ConvertFloat(w).buf
              n == Len(w.samples)
          IN  (/\ pc[p] = "t_read" /\ pc'[p] # "t_read"
               /\ w.valid /\ w.sample_rate = 16000 /\ w.channels \in {1, 2}
               /\ (w.sample_format = "Float" \/ w.bits_per_sample < 32)) =>
                 /\ pc'[p] = "t_lock"
                 /\ w.channels = 1 => audio'[p] = dec
                 /\ w.channels = 2 =>
                      /\ Len(audio'[p]) = n \div 2
                      /\ \A k \in 1..(n \div 2) :
                           audio'[p][k] = FHalf(FAdd(dec[2 * k - 1], dec[2 * k]))]_vars

\* pat occurs in s
Occurs(s, pat) ==
    \E i \in 1..(Len(s) - Len(pat) + 1) : SubSeq(s, i, i + Len(pat) - 1) = pat

\* C9: a transcript the embedded adapter returns contains none of the
\* hallucination markers and has no leading or trailing whitespace.
C9_NoMarkerInTranscript ==
    \A p \in Procs :
        (/\ Ended(p) /\ call[p].op = "cmd_transcribe"
         /\ fed[p].to = "embedded" /\ result[p].kind = "ok") =>
            /\ \A k \in 1..Len(filters) : ~Occurs(result[p].text, filters[k])
            /\ result[p].text = <<>> \/
                 (~is_whitespace(result[p].text[1])
                  /\ ~is_whitespace(result[p].text[Len(result[p].text)]))

\* position i of stream s begins a line
LineStart(s, i) == i \in 1..Len(s) /\ (i = 1 \/ s[i - 1].t = "nl")

\* the last position of the line that begins at i (i - 1 for an empty line)
LineEnd(s, i) ==
    CHOOSE e \in (i - 1)..Len(s) :
        /\ \A j \in i..e : s[j].t # "nl"
        /\ e = Len(s) \/ s[e + 1].t = "nl"

\* the line of s beginning at i is a structured record with a string text
\* member, which stands at position k
RecordAt(s, i, k) ==
    /\ LineStart(s, i)
    /\ k \in i..LineEnd(s, i)
    /\ s[k].t = "json" /\ s[k].v = "str"
    /\ \A m \in i..LineEnd(s, i) : m # k => s[m].t = "ws"

HasRecord(s) == \E i, k \in 1..Len(s) : RecordAt(s, i, k)

\* the text of the first such line of s
FirstRecordText(s) ==
    LET i == CHOOSE i \in 1..Len(s) :
                 /\ \E k \in 1..Len(s) : RecordAt(s, i, k)
                 /\ \A j \in 1..(i - 1) : ~\E k \in 1..Len(s) : RecordAt(s, j, k)
        k == CHOOSE k \in 1..Len(s) : RecordAt(s, i, k)
    IN  s[k].s

\* s without the whitespace around it
Trimmed(s) ==
    LET inner == {i \in 1..Len(s) : ~is_whitespace(s[i])}
    IN  IF inner = {} THEN <<>>
        ELSE SubSeq(s, CHOOSE a \in inner : \A b \in inner : a <= b,
                       CHOOSE a \in inner : \A b \in inner : a >= b)

\* C10: when the sidecar exits with success, transcribe returns a transcript:
\* the text of the first record line of standard error; if there is none, of
\* the first record line of standard output; if there is none either,
\* standard output without the whitespace around it.
C10_SidecarTranscript ==
    \A p \in Procs :
        (Ended(p) /\ got[p].out.code = 0) =>
            /\ result[p].kind = "ok"
            /\ result[p].text =
                 (IF HasRecord(got[p].out.stderr)
                  THEN <<Lit(FirstRecordText(got[p].out.stderr))>>
                  ELSE IF HasRecord(got[p].out.stdout)
                  THEN <<Lit(FirstRecordText(got[p].out.stdout))>>
                  ELSE Trimmed(got[p].out.stdout))

\* standard error holds lines but no record, and the transcript is the text
\* of a record that is not the first line of standard output
C10_Witness ==
    \E p \in Procs :
        /\ Ended(p) /\ got[p].out.code = 0
        /\ got[p].out.stderr # <<>> /\ ~HasRecord(got[p].out.stderr)
        /\ HasRecord(got[p].out.stdout)
        /\ ~\E k \in 1..Len(got[p].out.stdout) : RecordAt(got[p].out.stdout, 1, k)
        /\ result[p].text = <<Lit(FirstRecordText(got[p].out.stdout))>>

\* the label set by the load that installed engine e
LabelOf(e) ==
    CASE e.tag = "None" -> "None"
      [] e.tag = "Sherpa" -> e.model_name
      [] e.ctx = DefaultModelPath -> DefaultModelName
      [] OTHER -> e.ctx

\* some load call holds the engine guard
LoadHolds == \E p \in Procs : pc[p] \in {"l_name", "l_body", "l_label",
                                          "d_name", "d_body", "d_label"}

\* C11: the label changes atomically with the engine: whenever no load call
\* holds the guard, the label is the one set by the load that installed the
\* current engine ("None" while Unloaded); the label get_current_model returns
\* is that of the engine current at that moment; and while a transcription
\* uses an engine the label is that engine's.
C11_LabelAtomicWithEngine ==
    /\ [](~LoadHolds => label = LabelOf(engine))
    /\ [](\A p \in Procs : InGuard(p) => label = LabelOf(used[p].eng))
    /\ [][\A p \in Procs :
             (pc[p] = "g_lock" /\ pc'[p] = "idle") =>
                 result'[p] = Ok(LabelOf(engine))]_vars

\* a load has replaced a loaded engine and not yet the label, while a
\* get_current_model call waits for the label
C11_Witness ==
    \E p, q \in Procs :
        /\ pc[p] \in {"l_label", "d_label"} /\ pc[q] = "g_lock"
        /\ label # "None" /\ label # LabelOf(engine)

\* C12: only a load changes the engine or the label: every step of a
\* cmd_transcribe, get_current_model or set_model call, whatever the call
\* returns and on either backend, leaves both as they were.
C12_OnlyLoadChanges ==
    [][\A p \in Procs :
          (/\ call'[p].op \in {"cmd_transcribe", "get_current_model", "set_model"}
           /\ pc'[p] # pc[p])
          => (engine' = engine /\ label' = label)]_vars

\* with an engine loaded, a transcription has succeeded on one task and one
\* has failed on the other
C12_Witness ==
    \E p, q \in Procs :
        /\ Ended(p) /\ call[p].op = "cmd_transcribe" /\ result[p].kind = "ok"
        /\ Ended(q) /\ call[q].op = "cmd_transcribe" /\ result[q].kind = "err"
        /\ used[q].taken /\ engine.tag # "None"

\* C13: after a sidecar transcribe call that wrote its scratch file has
\* returned, the file exists exactly if the process ran and exited with a
\* failure status; then the call returned the error made of the exit code and
\* both streams; and a call that returned a transcript has no scratch file
\* left.
C13_ScratchKeptIffExitFailure ==
    \A p \in Procs :
        (Ended(p) /\ call[p].op = "cmd_transcribe" /\ side[p].wav # 0) =>
            LET o == got[p].out
                kept == side[p].wav \in files
            IN  /\ kept <=> (o # NoOut /\ ~success(o))
                /\ kept => result[p] =
                             ErrData("Sherpa exit code", <<o.code, o.stderr, o.stdout>>)
                /\ result[p].kind = "ok" => ~kept

\* C14: a transcribe call on an external engine that has resolved the sidecar
\* location fails without attempting to start a process when the binary
\* exists at neither the resource location nor the development-tree location,
\* and uses the resource location when the binary exists at both.
C14_BinaryNotFoundBeforeSpawn ==
    \A p \in Procs :
        (Ended(p) /\ call[p].op = "cmd_transcribe" /\ side[p].bin # "") =>
            /\ (~side[p].resExists /\ ~side[p].devExists) =>
                   (result[p].kind = "err" /\ ~side[p].spawned)
            /\ (side[p].resExists /\ side[p].devExists) => side[p].bin = "resource"

\* C15: a transcribe call on the embedded engine in which session creation,
\* the decode, the segment count or the retrieval of some segment's text
\* failed returns an error, never a transcript.
C15_EmbeddedFailureIsError ==
    \A p \in Procs :
        (/\ Ended(p) /\ call[p].op = "cmd_transcribe"
         /\ used[p].taken /\ used[p].eng.tag = "Whisper") =>
            LET segs == got[p].segs
                failure == \/ got[p].failed \in {"state_err", "full_err", "count_err"}
                           \/ \E k \in 1..Len(segs) : ~segs[k].ok
            IN  failure => result[p].kind = "err"

\* C16: read_wav_from_bytes on a 16 kHz mono integer input of 8, 16, 24 or 32
\* bits per sample returns a buffer (computing the divisor does not
\* overflow) whose k-th value is sample k divided by 2^(bits_per_sample-1):
\* it has the sign of the sample and a magnitude of at most 1.
C16_IntDivisorPowerOfTwo ==
    [][\A p \in Procs :
          LET w == call[p].wav
              bits == w.bits_per_sample
          IN  (/\ pc[p] = "t_read" /\ pc'[p] # "t_read"
               /\ w.valid /\ w.sample_rate = 16000 /\ w.channels = 1
               /\ w.sample_format = "Int" /\ bits \in {8, 16, 24, 32}) =>
                 /\ pc'[p] = "t_lock"
                 /\ Len(audio'[p]) = Len(w.samples)
                 /\ \A k \in 1..Len(w.samples) :
                      LET s == IF w.samples[k].ok THEN w.samples[k].i ELSE 0
                          x == audio'[p][k]
                      IN  /\ x = Fin(s, bits - 1)
                          /\ (s > 0 => x.num > 0) /\ (s < 0 => x.num < 0)
                          /\ x.exp >= 31 \/ (x.num <= 2^x.exp /\ -x.num <= 2^x.exp)]_vars

\* C17: the commands do not deadlock on the two guards: a task holds the
\* label guard only while it holds the engine guard (every call that takes
\* both takes the engine guard first), and, the backends terminating and
\* guard acquisition being fair, every call eventually returns.
C17_EveryCallReturns ==
    /\ [](\A p \in Procs : nameOwner = p => engineOwner = p)
    /\ \A p \in Procs : (pc[p] # "idle") ~> (pc[p] = "idle")

\* a load holds both guards while a call on the other task waits for one
C17_Witness ==
    \E p, q \in Procs :
        /\ p # q /\ nameOwner = p /\ engineOwner = p
        /\ pc[q] \in {"t_lock", "l_lock", "d_lock", "g_lock"}

=============================================================================
